---- MODULE Spec2Model ----
(***************************************************************************)
(* A model of three parts of the repository:                               *)
(*   - the stream bridges of lester (with_c_callback in cairo.rs and in    *)
(*     lib.rs) that let the native PNG codec call back into a Rust         *)
(*     Read / Write stream (specification Spec);                           *)
(*   - #[derive(SfntTable)] of proc-macros (specification SpecSfnt);       *)
(*   - #[derive(Pod)] of proc-macros (specification SpecPod).              *)
(***************************************************************************)
EXTENDS Integers, Sequences, FiniteSets, TLC

(***************************************************************************)
(* Bounds of the model.                                                    *)
(***************************************************************************)
\* callback invocations the native library makes during one native call
MaxCalls == 3

\* attributes on the input of a derive
MaxAttrs == 1

\* fields of the struct given to a derive
MaxFields == 2

\* attributes on the input of derive(Pod)
MaxPodAttrs == 2

\* byte positions self of a Position an accessor is applied to
MaxBase == 2

(***************************************************************************)
(* The environment of a bridge: the stream and the native library.         *)
(***************************************************************************)
\* the io::Error values a stream call may return
IoErrors == {"E1", "E2"}

\* the payloads a panicking stream call may carry
Payloads == {"P1", "P2"}

\* what one call of read_exact / write_all does: returns Ok(()), returns
\* Err(e), or panics with a payload
Outcomes == {"Ok"} \cup IoErrors \cup Payloads

\* the cairo_status_t values the native library may report for the call
NativeStatuses ==
    {"CAIRO_STATUS_SUCCESS", "CAIRO_STATUS_NO_MEMORY", "CAIRO_STATUS_READ_ERROR"}

Ops == {"read_from_png", "write_to_png"}

VARIABLES
    op,              \* the operation under way
    script,          \* script[j]: what the j-th call on the stream does
    native_status,   \* the status the native library reports when it returns
    c_pc,            \* cairo.rs: where the operation stands
    c_closure_data,  \* cairo.rs: ClosureData {stream, stream_result, panic_payload}
    c_log,           \* cairo.rs: one entry per callback invocation
    c_surface,       \* cairo.rs: the native surface handle (created, destroyed)
    c_result,        \* cairo.rs: what the operation gave its caller
    l_pc,            \* lib.rs: where the operation stands
    l_closure_data,  \* lib.rs: ClosureData {stream, stream_result}
    l_log,           \* lib.rs: one entry per callback invocation
    l_surface,       \* lib.rs: the native surface handle (created, destroyed)
    l_result         \* lib.rs: what the operation gave its caller

\* derive_sfnt_table
VARIABLES
    input,        \* the parsed syn::DeriveInput: attrs, data, fields
    s_pc,         \* where the derive stands
    s_attr,       \* the attribute the first loop looks at next
    s_field,      \* the field the second loop looks at next
    table_impl,   \* the SfntTable impl, once a tag attribute gave it
    methods,      \* the accessors quoted so far
    offset,       \* the running byte offset
    size,         \* the size given to the field last looked at
    tokens,       \* what the derive emits
    failure       \* the panic that ended the derive

\* derive_pod
VARIABLES
    p_input,      \* the parsed syn::DeriveInput: attrs, data, fields
    p_pc,         \* where the derive stands
    p_attr,       \* the attribute any() looks at next
    has_repr_c,   \* the result of the search for #[repr(C)]
    p_tokens,     \* what the derive emits
    p_failure     \* the panic that ended the derive

\* style::values::Length
VARIABLES
    v_version,    \* which Length::parse runs: "values.rs" or "values/length.rs"
    v_parser,     \* the cssparser::Parser: the tokens next() yields, and how many it has yielded
    v_before,     \* the parser's position when the last parse was called
    v_result,     \* what the last parse returned
    v_computed,   \* what to_computed returned for the parsed length, if called
    v_pc          \* where the caller stands

sfntVars == <<input, s_pc, s_attr, s_field, table_impl, methods, offset, size,
              tokens, failure>>
podVars == <<p_input, p_pc, p_attr, has_repr_c, p_tokens, p_failure>>
lengthVars == <<v_version, v_parser, v_before, v_result, v_computed, v_pc>>

envVars == <<op, script, native_status>>
cairoVars == <<c_pc, c_closure_data, c_log, c_surface, c_result>>
libVars == <<l_pc, l_closure_data, l_log, l_surface, l_result>>
bridgeVars == <<envVars, cairoVars, libVars>>
vars == <<bridgeVars, sfntVars, podVars, lengthVars>>

\* no tokens emitted (the derive has not finished, or it panicked)
NoTokens == [emitted |-> FALSE, table_impl |-> <<>>, size_of |-> 0, methods |-> <<>>]

\* no result yet
Pending == [kind |-> "Pending", val |-> "-"]

\* a surface handle neither created nor destroyed
NoSurface == [created |-> 0, destroyed |-> 0]

\* the parts of the model a specification leaves alone
BridgeIdle ==
    /\ op = "-"
    /\ script = <<>>
    /\ native_status = "-"
    /\ c_pc = "idle"
    /\ l_pc = "idle"
    /\ c_log = <<>>
    /\ l_log = <<>>
    /\ c_result = Pending
    /\ l_result = Pending
    /\ c_closure_data = "-"
    /\ l_closure_data = "-"
    /\ c_surface = NoSurface
    /\ l_surface = NoSurface

SfntIdle ==
    /\ input = "-"
    /\ s_pc = "idle"
    /\ s_attr = 0
    /\ s_field = 0
    /\ table_impl = <<>>
    /\ methods = <<>>
    /\ offset = 0
    /\ size = 0
    /\ tokens = NoTokens
    /\ failure = "None"

\* no tokens emitted by derive(Pod)
NoPodTokens ==
    [emitted |-> FALSE, impl_pod_for |-> "-", assert_fields |-> <<>>,
     packed |-> [ident |-> "-", attrs |-> <<>>, fields |-> <<>>]]

PodIdle ==
    /\ p_input = "-"
    /\ p_pc = "idle"
    /\ p_attr = 0
    /\ has_repr_c = FALSE
    /\ p_tokens = NoPodTokens
    /\ p_failure = "None"

\* no Length value
NoLength == [variant |-> "-", px |-> 0]

\* no parse result yet
NoResult == [kind |-> "-", val |-> NoLength, err |-> "-"]

LengthIdle ==
    /\ v_version = "-"
    /\ v_parser = [input |-> <<>>, position |-> 0]
    /\ v_before = 0
    /\ v_result = NoResult
    /\ v_computed = <<>>
    /\ v_pc = "idle"

\* $ErrorConst of the callback: read_from_png passes CAIRO_STATUS_WRITE_ERROR,
\* write_to_png passes CAIRO_STATUS_READ_ERROR
ErrorConst(o) ==
    IF o = "read_from_png" THEN "CAIRO_STATUS_WRITE_ERROR"
    ELSE "CAIRO_STATUS_READ_ERROR"

\* CairoError::check
CairoErrorCheck(status) ==
    IF status = "CAIRO_STATUS_SUCCESS"
    THEN [kind |-> "Ok", val |-> "-"]
    ELSE [kind |-> "Cairo", val |-> status]

(***************************************************************************)
(* cairo.rs                                                                *)
(***************************************************************************)
\* CairoCallbackResult without the early return on a recorded error: the stream
\* is called again and a later error overwrites the recorded one
CairoCallbackResultNotSticky(cd) ==
    LET o == script[cd.stream + 1]
        used == [cd EXCEPT !.stream = @ + 1]
    IN  IF o = "Ok"
        THEN [cd |-> used, called |-> TRUE, outcome |-> o,
              ret |-> "CAIRO_STATUS_SUCCESS"]
        ELSE IF o \in IoErrors
        THEN [cd |-> [used EXCEPT !.stream_result = o], called |-> TRUE,
              outcome |-> o, ret |-> ErrorConst(op)]
        ELSE [cd |-> [used EXCEPT !.panic_payload = o], called |-> TRUE,
              outcome |-> o, ret |-> ErrorConst(op)]

\* CairoCallbackResult whose early return on a recorded error reports success
CairoCallbackResultQuietAfterError(cd) ==
    IF cd.stream_result # "Ok"
    THEN [cd |-> cd, called |-> FALSE, outcome |-> "-", ret |-> "CAIRO_STATUS_SUCCESS"]
    ELSE CairoCallbackResultNotSticky(cd)

\* one invocation of the extern "C" callback: the closure under catch_unwind,
\* then the match on panic_result.  stream counts the calls made on the stream.
CairoCallbackResult(cd) ==
    IF cd.stream_result # "Ok"
    THEN [cd |-> cd, called |-> FALSE, outcome |-> "-", ret |-> ErrorConst(op)]
    ELSE LET o == script[cd.stream + 1]
             used == [cd EXCEPT !.stream = @ + 1]
         IN  IF o = "Ok"
             THEN [cd |-> used, called |-> TRUE, outcome |-> o,
                   ret |-> "CAIRO_STATUS_SUCCESS"]
             ELSE IF o \in IoErrors
             THEN [cd |-> [used EXCEPT !.stream_result = o], called |-> TRUE,
                   outcome |-> o, ret |-> ErrorConst(op)]
             ELSE [cd |-> [used EXCEPT !.panic_payload = o], called |-> TRUE,
                   outcome |-> o, ret |-> ErrorConst(op)]

\* CairoOutcome with stream_result? placed before the panic_payload test
CairoOutcomeIoFirst(cd, status) ==
    IF cd.stream_result # "Ok"
    THEN [kind |-> "Io", val |-> cd.stream_result]
    ELSE IF cd.panic_payload # "None"
    THEN [kind |-> "Panic", val |-> cd.panic_payload]
    ELSE CairoErrorCheck(status)

\* the tail of with_c_callback and of the operation: resume_unwind if a payload
\* was stored, then stream_result?, then the native status
CairoOutcome(cd, status) ==
    IF cd.panic_payload # "None"
    THEN [kind |-> "Panic", val |-> cd.panic_payload]
    ELSE IF cd.stream_result # "Ok"
    THEN [kind |-> "Io", val |-> cd.stream_result]
    ELSE CairoErrorCheck(status)

\* CairoLeave with the pointer not yet wrapped when the panic is re-raised: the
\* unwinding finds no ImageSurface to drop
CairoLeaveLeakOnPanic(surface, outcome) ==
    IF outcome.kind \in {"Ok", "Panic"} THEN surface
    ELSE [surface EXCEPT !.destroyed = @ + 1]

\* leaving the operation: an ImageSurface local that is not returned is dropped
\* (Drop calls cairo_surface_destroy), on an early return and on unwinding alike
CairoLeave(surface, outcome) ==
    IF outcome.kind = "Ok" THEN surface
    ELSE [surface EXCEPT !.destroyed = @ + 1]

CairoCallback ==
    /\ c_pc = "native"
    /\ Len(c_log) < Len(script)
    /\ LET r == CairoCallbackResult(c_closure_data)
       IN  /\ c_closure_data' = r.cd
           /\ c_log' = Append(c_log,
                  [called |-> r.called, outcome |-> r.outcome, ret |-> r.ret])
    /\ UNCHANGED <<c_pc, c_surface, c_result, envVars, libVars, sfntVars, podVars, lengthVars>>

\* the native function returns; read_from_png wraps the pointer it returned
CairoNativeReturn ==
    /\ c_pc = "native"
    /\ Len(c_log) = Len(script)
    /\ c_pc' = "returned"
    /\ c_surface' = IF op = "read_from_png"
                    THEN [c_surface EXCEPT !.created = @ + 1]
                    ELSE c_surface
    /\ UNCHANGED <<c_closure_data, c_log, c_result, envVars, libVars, sfntVars, podVars, lengthVars>>

CairoFinish ==
    /\ c_pc = "returned"
    /\ LET outcome == CairoOutcome(c_closure_data, native_status)
       IN  /\ c_result' = outcome
           /\ c_surface' = IF op = "read_from_png"
                           THEN CairoLeave(c_surface, outcome)
                           ELSE c_surface
    /\ c_pc' = "done"
    /\ UNCHANGED <<c_closure_data, c_log, envVars, libVars, sfntVars, podVars, lengthVars>>

\* ImageSurface::new: create, wrap, check_status
CairoNew ==
    /\ c_pc = "start"
    /\ op = "new"
    /\ LET outcome == CairoErrorCheck(native_status)
       IN  /\ c_result' = outcome
           /\ c_surface' = CairoLeave([c_surface EXCEPT !.created = @ + 1], outcome)
    /\ c_pc' = "done"
    /\ UNCHANGED <<c_closure_data, c_log, envVars, libVars, sfntVars, podVars, lengthVars>>

\* the caller drops the ImageSurface it was given
CairoDropSurface ==
    /\ c_pc = "done"
    /\ op \in {"read_from_png", "new"}
    /\ c_result.kind = "Ok"
    /\ c_surface' = [c_surface EXCEPT !.destroyed = @ + 1]
    /\ c_pc' = "dropped"
    /\ UNCHANGED <<c_closure_data, c_log, c_result, envVars, libVars, sfntVars, podVars, lengthVars>>

(***************************************************************************)
(* lib.rs                                                                  *)
(***************************************************************************)
\* LibCallbackResult without the early return on a recorded error
LibCallbackResultNotSticky(cd) ==
    LET o == script[cd.stream + 1]
        used == [cd EXCEPT !.stream = @ + 1]
    IN  IF o = "Ok"
        THEN [cd |-> used, called |-> TRUE, outcome |-> o,
              ret |-> "CAIRO_STATUS_SUCCESS"]
        ELSE IF o \in IoErrors
        THEN [cd |-> [used EXCEPT !.stream_result = o], called |-> TRUE,
              outcome |-> o, ret |-> ErrorConst(op)]
        ELSE [cd |-> used, called |-> TRUE, outcome |-> o, ret |-> "-"]

\* one invocation of the extern "C" callback; a panic of the stream is not
\* caught (FIXME: catch panics) and leaves the callback without a status
LibCallbackResult(cd) ==
    IF cd.stream_result # "Ok"
    THEN [cd |-> cd, called |-> FALSE, outcome |-> "-", ret |-> ErrorConst(op)]
    ELSE LET o == script[cd.stream + 1]
             used == [cd EXCEPT !.stream = @ + 1]
         IN  IF o = "Ok"
             THEN [cd |-> used, called |-> TRUE, outcome |-> o,
                   ret |-> "CAIRO_STATUS_SUCCESS"]
             ELSE IF o \in IoErrors
             THEN [cd |-> [used EXCEPT !.stream_result = o], called |-> TRUE,
                   outcome |-> o, ret |-> ErrorConst(op)]
             ELSE [cd |-> used, called |-> TRUE, outcome |-> o, ret |-> "-"]

\* the tail of with_c_callback and of the operation: stream_result?, then the
\* native status
LibOutcome(cd, status) ==
    IF cd.stream_result # "Ok"
    THEN [kind |-> "Io", val |-> cd.stream_result]
    ELSE CairoErrorCheck(status)

\* leaving the operation: a CairoImageSurface local that is not returned is dropped
LibLeave(surface, outcome) ==
    IF outcome.kind = "Ok" THEN surface
    ELSE [surface EXCEPT !.destroyed = @ + 1]

\* A panic that leaves an extern "C" function unwinds into the frames of the
\* native library: undefined behaviour.  The build either aborts the process
\* or lets the unwinding run through the native frames.
LibCallback ==
    /\ l_pc = "native"
    /\ Len(l_log) < Len(script)
    /\ LET r == LibCallbackResult(l_closure_data)
       IN  /\ l_closure_data' = r.cd
           /\ l_log' = Append(l_log,
                  [called |-> r.called, outcome |-> r.outcome, ret |-> r.ret])
           /\ IF r.outcome \in Payloads
              THEN /\ l_pc' = "crashed"
                   /\ \E how \in {"Abort", "UnwindThroughNative"} :
                          l_result' = [kind |-> how, val |-> r.outcome]
              ELSE UNCHANGED <<l_pc, l_result>>
    /\ UNCHANGED <<l_surface, envVars, cairoVars, sfntVars, podVars, lengthVars>>

LibNativeReturn ==
    /\ l_pc = "native"
    /\ Len(l_log) = Len(script)
    /\ l_pc' = "returned"
    /\ l_surface' = IF op = "read_from_png"
                    THEN [l_surface EXCEPT !.created = @ + 1]
                    ELSE l_surface
    /\ UNCHANGED <<l_closure_data, l_log, l_result, envVars, cairoVars, sfntVars, podVars, lengthVars>>

LibFinish ==
    /\ l_pc = "returned"
    /\ LET outcome == LibOutcome(l_closure_data, native_status)
       IN  /\ l_result' = outcome
           /\ l_surface' = IF op = "read_from_png"
                           THEN LibLeave(l_surface, outcome)
                           ELSE l_surface
    /\ l_pc' = "done"
    /\ UNCHANGED <<l_closure_data, l_log, envVars, cairoVars, sfntVars, podVars, lengthVars>>

\* the caller drops the CairoImageSurface it was given
LibDropSurface ==
    /\ l_pc = "done"
    /\ op = "read_from_png"
    /\ l_result.kind = "Ok"
    /\ l_surface' = [l_surface EXCEPT !.destroyed = @ + 1]
    /\ l_pc' = "dropped"
    /\ UNCHANGED <<l_closure_data, l_log, l_result, envVars, cairoVars, sfntVars, podVars, lengthVars>>

(***************************************************************************)
(* The bridges' specification: the operation, the stream's behaviour and   *)
(* the native status are the inputs; both bridges run on the same inputs.  *)
(***************************************************************************)
Scripts == UNION {[1..n -> Outcomes] : n \in 0..MaxCalls}

BridgeInit ==
    /\ SfntIdle
    /\ PodIdle
    /\ LengthIdle
    /\ native_status \in NativeStatuses
    /\ c_log = <<>>
    /\ l_log = <<>>
    /\ c_result = Pending
    /\ l_result = Pending
    /\ c_closure_data = [stream |-> 0, stream_result |-> "Ok", panic_payload |-> "None"]
    /\ l_closure_data = [stream |-> 0, stream_result |-> "Ok"]
    /\ \/ /\ op \in Ops
          /\ script \in Scripts
          /\ c_pc = "native"
          /\ l_pc = "native"
          \* write_to_png borrows a surface that exists already
          /\ c_surface = [created |-> IF op = "write_to_png" THEN 1 ELSE 0,
                          destroyed |-> 0]
          /\ l_surface = c_surface
       \/ /\ op = "new"
          /\ script = <<>>
          /\ c_pc = "start"
          /\ l_pc = "absent"
          /\ c_surface = NoSurface
          /\ l_surface = NoSurface

BridgeNext ==
    \/ CairoCallback
    \/ CairoNativeReturn
    \/ CairoFinish
    \/ CairoNew
    \/ CairoDropSurface
    \/ LibCallback
    \/ LibNativeReturn
    \/ LibFinish
    \/ LibDropSurface

Spec == BridgeInit /\ [][BridgeNext]_vars

(***************************************************************************)
(* Properties of the bridges.                                              *)
(***************************************************************************)
Left(pc) == pc \in {"done", "dropped"}

\* some callback invocation of the log panicked
Panicked(log) == \E k \in 1..Len(log) : log[k].outcome \in Payloads

\* the first error a stream call of the log returned ("Ok" when none did)
FirstError(log) ==
    LET ks == {k \in 1..Len(log) : log[k].outcome \in IoErrors}
    IN  IF ks = {} THEN "Ok"
        ELSE log[CHOOSE k \in ks : \A j \in ks : k <= j].outcome

\* C1: in the cairo.rs bridge, when a callback invocation of the call panicked,
\* the operation ends by re-raising the panic, never with an I/O error or a
\* native-status error, whatever stream_result and the native status are.
C1_PanicTakesPrecedence ==
    (op \in Ops /\ Left(c_pc) /\ Panicked(c_log))
        => (c_result.kind = "Panic" /\ c_result.val \in Payloads)

\* a panic, a recorded stream error and a non-success native status in one call
C1_Witness ==
    /\ op \in Ops
    /\ c_pc = "done"
    /\ Panicked(c_log)
    /\ c_closure_data.stream_result \in IoErrors
    /\ native_status # "CAIRO_STATUS_SUCCESS"
    /\ c_result.kind = "Panic"

\* C2: in read_from_png and new of cairo.rs the native surface is created once;
\* when the operation leaves without handing a surface to the caller (panic
\* re-raised, stream error, native status) it has been destroyed exactly once;
\* on success it is not destroyed until the caller drops the ImageSurface, and
\* then exactly once.
C2_SurfaceDestroyedOnce ==
    op \in {"read_from_png", "new"} =>
        /\ c_surface.created <= 1
        /\ c_surface.destroyed <= c_surface.created
        /\ ~Left(c_pc) => c_surface.destroyed = 0
        /\ (c_pc = "done" /\ c_result.kind # "Ok")
               => (c_surface.created = 1 /\ c_surface.destroyed = 1)
        /\ (c_pc = "done" /\ c_result.kind = "Ok")
               => (c_surface.created = 1 /\ c_surface.destroyed = 0)
        /\ c_pc = "dropped"
               => (c_surface.created = 1 /\ c_surface.destroyed = 1)

\* read_from_png left by a re-raised panic, its surface destroyed
C2_Witness ==
    /\ op = "read_from_png"
    /\ c_pc = "done"
    /\ c_result.kind = "Panic"
    /\ c_surface = [created |-> 1, destroyed |-> 1]

C3_Of(pc, log, result) ==
    (Left(pc) /\ ~Panicked(log)) =>
        /\ FirstError(log) # "Ok"
               => result = [kind |-> "Io", val |-> FirstError(log)]
        /\ (FirstError(log) = "Ok" /\ native_status # "CAIRO_STATUS_SUCCESS")
               => result = [kind |-> "Cairo", val |-> native_status]
        /\ result.kind = "Ok"
               <=> (FirstError(log) = "Ok" /\ native_status = "CAIRO_STATUS_SUCCESS")

\* C3: in a call of read_from_png or write_to_png where no callback panics, of
\* either bridge: when a stream call returned an error the operation returns
\* the Io variant with the first error the stream returned, whatever the native
\* status; when none did and the native status is not success it returns the
\* Cairo variant with that status; it succeeds only when no stream call failed
\* and the native status is success.
C3_ErrorChannels ==
    op \in Ops => (C3_Of(c_pc, c_log, c_result) /\ C3_Of(l_pc, l_log, l_result))

\* a stream error returned although the native library reports another failure
C3_Witness ==
    /\ op \in Ops
    /\ c_pc = "done"
    /\ l_pc = "done"
    /\ ~Panicked(c_log)
    /\ Len(c_log) >= 2
    /\ FirstError(c_log) = "E2"
    /\ native_status = "CAIRO_STATUS_NO_MEMORY"
    /\ c_result = [kind |-> "Io", val |-> "E2"]
    /\ l_result = c_result

PanicUpTo(log, k) == \E j \in 1..k : log[j].outcome \in Payloads

\* C10: on the same stream and native call the two bridges agree as long as no
\* stream call has panicked: invocation by invocation the same stream call (or
\* none), the same outcome and the same status returned, and, when the run had
\* no panic, the same final result.  At a panicking stream call the cairo.rs
\* callback returns the error status and the operation ends re-raising the
\* panic; the lib.rs callback returns nothing: the panic leaves it uncaught.
C10_BridgesAgree ==
    op \in Ops =>
        /\ \A k \in 1..Len(c_log) :
               (k <= Len(l_log) /\ ~PanicUpTo(c_log, k) /\ ~PanicUpTo(l_log, k))
                   => c_log[k] = l_log[k]
        /\ (Left(c_pc) /\ Left(l_pc) /\ ~Panicked(c_log) /\ ~Panicked(l_log))
               => (c_result = l_result
                   /\ c_closure_data.stream = l_closure_data.stream)
        /\ \A k \in 1..Len(c_log) :
               c_log[k].outcome \in Payloads
                   => /\ c_log[k].ret = ErrorConst(op)
                      /\ Left(c_pc) => c_result.kind = "Panic"
        /\ \A k \in 1..Len(l_log) :
               l_log[k].outcome \in Payloads
                   => /\ l_log[k].ret = "-"
                      /\ k = Len(l_log)
                      /\ l_pc = "crashed"
                      /\ l_result.kind \in {"Abort", "UnwindThroughNative"}

\* a panic-free run of three invocations that both bridges finished alike, the
\* second stream call failing
C10_Witness ==
    /\ op \in Ops
    /\ Left(c_pc)
    /\ Left(l_pc)
    /\ Len(c_log) = 3
    /\ c_log = l_log
    /\ ~Panicked(c_log)
    /\ c_log[1].ret = "CAIRO_STATUS_SUCCESS"
    /\ c_log[2].outcome \in IoErrors
    /\ ~c_log[3].called
    /\ c_result = l_result

\* the stream calls made in the first k invocations of the log
CallsUpTo(log, k) == Cardinality({j \in 1..k : log[j].called})

StickyIn(log, cd) ==
    \A k \in 1..Len(log) :
        log[k].outcome \in IoErrors =>
            /\ cd.stream_result = log[k].outcome
            /\ cd.stream = CallsUpTo(log, k)
            /\ \A j \in (k + 1)..Len(log) :
                   /\ ~log[j].called
                   /\ log[j].ret = ErrorConst(op)
                   /\ log[j].ret # "CAIRO_STATUS_SUCCESS"

\* C11: in both bridges, within one native call, after the callback invocation
\* in which a stream call returned an error no later invocation calls the
\* stream, every later invocation returns the bridge's error status, never
\* CAIRO_STATUS_SUCCESS, and the recorded error stays the one first returned.
C11_ErrorIsSticky ==
    op \in Ops =>
        (StickyIn(c_log, c_closure_data) /\ StickyIn(l_log, l_closure_data))

\* the first stream call failed with E1 and two more invocations followed,
\* although the stream would have failed with E2 on its next call
C11_Witness ==
    /\ op \in Ops
    /\ Len(script) = 3
    /\ script[1] = "E1"
    /\ script[2] = "E2"
    /\ Len(c_log) = 3
    /\ Len(l_log) = 3
    /\ c_closure_data.stream_result = "E1"
    /\ l_closure_data.stream_result = "E1"
    /\ c_closure_data.stream = 1

\* the payload of the first panic of the log
FirstPayload(log) ==
    LET ks == {k \in 1..Len(log) : log[k].outcome \in Payloads}
    IN  log[CHOOSE k \in ks : \A j \in ks : k <= j].outcome

\* C12: in the cairo.rs bridge, once a callback invocation has panicked no
\* later invocation of the same native call calls the stream, and the panic
\* re-raised after the native call carries the payload of the first panic.
C12_PanicIsSticky ==
    (op \in Ops /\ Panicked(c_log)) =>
        /\ \A k \in 1..Len(c_log) :
               c_log[k].outcome \in Payloads =>
                   \A j \in (k + 1)..Len(c_log) : ~c_log[j].called
        /\ Left(c_pc) => c_result = [kind |-> "Panic", val |-> FirstPayload(c_log)]

(***************************************************************************)
(* proc-macros: #[derive(SfntTable)]                                       *)
(***************************************************************************)
\* A string literal is the sequence of its chars (code points).  The tag
\* strings tried: "head", "\0b\u{e9}" (3 chars, 4 bytes, one not printable and
\* one not ASCII) and "abc\u{e9}" (4 chars, 5 bytes).
TagStrings == {<<104, 101, 97, 100>>, <<0, 98, 233>>, <<97, 98, 99, 233>>}

\* what attr.interpret_meta() gives for the attributes tried: #[tag = "..."],
\* #[tag = 4], #[doc = "abc"], #[repr(C)]
SfntAttrs ==
    {[meta |-> "NameValue", ident |-> "tag", lit |-> "Str", value |-> v] :
         v \in TagStrings}
    \cup {[meta |-> "NameValue", ident |-> "tag", lit |-> "Int", value |-> <<52>>],
          [meta |-> "NameValue", ident |-> "doc", lit |-> "Str", value |-> <<97, 98, 99>>],
          [meta |-> "List", ident |-> "repr", lit |-> "-", value |-> <<>>]}

\* the type names the derive gives a size
SizedNames ==
    {"u16", "i16", "FWord", "UFWord", "FontDesignUnitsPerEmFactorU16",
     "u32", "FixedPoint", "Tag", "LongDateTime"}

\* field.ty for the fields tried: a single-segment path of each sized name, the
\* path f32, the paths u16::Item and fonts::Tag, the qualified path
\* <T as Trait>::u32, and a type that is no path ([u8; 4])
FieldTypes ==
    {[kind |-> "Path", qself |-> FALSE, segments |-> <<n>>] :
         n \in SizedNames \cup {"f32"}}
    \cup {[kind |-> "Path", qself |-> FALSE, segments |-> <<"u16", "Item">>],
          [kind |-> "Path", qself |-> FALSE, segments |-> <<"fonts", "Tag">>],
          [kind |-> "Path", qself |-> TRUE, segments |-> <<"Trait", "u32">>],
          [kind |-> "Array", qself |-> FALSE, segments |-> <<>>]}

SeqsUpTo(S, n) == UNION {[1..k -> S] : k \in 0..n}

\* the type of every field of the tuple structs tried
TupleFieldTypes == {[kind |-> "Path", qself |-> FALSE, segments |-> <<"u16">>]}

\* the UTF-8 encoding of a char
Utf8(c) ==
    IF c < 128 THEN <<c>>
    ELSE IF c < 2048 THEN <<192 + (c \div 64), 128 + (c % 64)>>
    ELSE <<224 + (c \div 4096), 128 + ((c \div 64) % 64), 128 + (c % 64)>>

\* String::as_bytes of tag.value()
RECURSIVE AsBytes(_)
AsBytes(value) ==
    IF value = <<>> THEN <<>>
    ELSE Utf8(Head(value)) \o AsBytes(Tail(value))

\* TagLengthOk counting chars instead of bytes
TagLengthOkChars(value) == Len(value) = 4

\* assert_eq!(value.len(), 4)
TagLengthOk(value) == Len(AsBytes(value)) = 4

\* syn::LitByteStr::new(value.as_bytes(), tag.span)
TagLiteral(value) == AsBytes(value)

\* FieldSize with a default of 4 for a type name it does not know
FieldSizeDefault4(name) ==
    CASE name \in {"u16", "i16", "FWord", "UFWord", "FontDesignUnitsPerEmFactorU16"} -> 2
      [] name = "LongDateTime" -> 8
      [] OTHER -> 4

\* the match on the last path segment's ident; 0 stands for the panic
\* "The size of .. is unknown"
FieldSize(name) ==
    CASE name \in {"u16", "i16", "FWord", "UFWord", "FontDesignUnitsPerEmFactorU16"} -> 2
      [] name \in {"u32", "FixedPoint", "Tag"} -> 4
      [] name = "LongDateTime" -> 8
      [] OTHER -> 0

\* ExpectedAlign with 2 for the 4 of min(size, 4)
ExpectedAlignMin2(sz) == IF sz < 2 THEN sz ELSE 2

\* std::cmp::min(size, 4)
ExpectedAlign(sz) == IF sz < 4 THEN sz ELSE 4

\* NextOffset that pads every field to four bytes
NextOffsetPadded(off, sz) == off + (IF sz < 4 THEN 4 ELSE sz)

\* offset += size (a u32; the sizes summed here stay far below 2^32)
NextOffset(off, sz) == off + sz

\* SizeOf rounded up to the struct's alignment
SizeOfPadded(off) == ((off + 3) \div 4) * 4

\* let size_of = offset as usize
SizeOf(off) == off

LastSegment(ty) == ty.segments[Len(ty.segments)]

AfterAttrs(i) == IF i > Len(input.attrs) THEN "data" ELSE "attrs"

AfterFields(i) == IF i > Len(input.fields) THEN "emit" ELSE "fields"

SfntAbort(why) ==
    /\ s_pc' = "aborted"
    /\ failure' = why

\* one turn of `for attr in &input.attrs`
SfntAttr ==
    /\ s_pc = "attrs"
    /\ LET attr == input.attrs[s_attr]
       IN  IF attr.meta = "NameValue" /\ attr.ident = "tag" /\ attr.lit = "Str"
           THEN IF TagLengthOk(attr.value)
                THEN /\ table_impl' = <<[trait |-> "SfntTable", tag |-> TagLiteral(attr.value)]>>
                     /\ s_pc' = "data"     \* break
                     /\ UNCHANGED <<s_attr, failure>>
                ELSE /\ SfntAbort("TagLength")
                     /\ UNCHANGED <<s_attr, table_impl>>
           ELSE /\ s_attr' = s_attr + 1
                /\ s_pc' = AfterAttrs(s_attr + 1)
                /\ UNCHANGED <<table_impl, failure>>
    /\ UNCHANGED <<input, s_field, methods, offset, size, tokens,
                   bridgeVars, podVars, lengthVars>>

\* `if let syn::Data::Struct(ref struct_) = input.data`
SfntData ==
    /\ s_pc = "data"
    /\ IF input.data = "Struct"
       THEN /\ s_pc' = AfterFields(1)
            /\ UNCHANGED failure
       ELSE SfntAbort("NotStruct")
    /\ UNCHANGED <<input, s_attr, s_field, table_impl, methods, offset, size,
                   tokens, bridgeVars, podVars, lengthVars>>

\* one turn of `for field in struct_.fields.iter()`; the accessor of a field is
\* named after the field (here: its index)
SfntField ==
    /\ s_pc = "fields"
    /\ LET ty == input.fields[s_field]
       IN  IF ~input.named
           THEN SfntAbort("UnnamedField") /\ UNCHANGED <<s_field, methods, offset, size>>
           ELSE IF ty.kind # "Path"
           THEN SfntAbort("UnsupportedType") /\ UNCHANGED <<s_field, methods, offset, size>>
           ELSE IF ty.qself
           THEN SfntAbort("QSelf") /\ UNCHANGED <<s_field, methods, offset, size>>
           ELSE LET sz == FieldSize(LastSegment(ty))
                IN  IF sz = 0
                    THEN SfntAbort("UnknownSize")
                         /\ UNCHANGED <<s_field, methods, offset, size>>
                    ELSE IF offset % ExpectedAlign(sz) # 0
                    THEN SfntAbort("Misaligned")
                         /\ size' = sz
                         /\ UNCHANGED <<s_field, methods, offset>>
                    ELSE /\ methods' = Append(methods,
                               [name |-> s_field, ty |-> ty, offset |-> offset])
                         /\ offset' = NextOffset(offset, sz)
                         /\ size' = sz
                         /\ s_field' = s_field + 1
                         /\ s_pc' = AfterFields(s_field + 1)
                         /\ UNCHANGED failure
    /\ UNCHANGED <<input, s_attr, table_impl, tokens, bridgeVars, podVars, lengthVars>>

\* the final quote!: table_impl, _assert_size_of and the accessors
SfntEmit ==
    /\ s_pc = "emit"
    /\ tokens' = [emitted |-> TRUE, table_impl |-> table_impl,
                  size_of |-> SizeOf(offset), methods |-> methods]
    /\ s_pc' = "done"
    /\ UNCHANGED <<input, s_attr, s_field, table_impl, methods, offset, size,
                   failure, bridgeVars, podVars, lengthVars>>

\* Position::offset of fonts::parsing, which the accessors call
PositionOffset(self, by, ty) == [byte_position |-> self.byte_position + by, ty |-> ty]

\* the accessor quoted for a field: `self.offset(#offset)`
Accessor(m, self) == PositionOffset(self, m.offset, m.ty)

SfntInit ==
    /\ BridgeIdle
    /\ PodIdle
    /\ LengthIdle
    \* the inputs tried: a struct with named fields (none: a unit struct), a
    \* tuple struct, an enum and a union
    /\ \E a \in SeqsUpTo(SfntAttrs, MaxAttrs) :
           \/ \E f \in SeqsUpTo(FieldTypes, MaxFields) :
                  input = [attrs |-> a, data |-> "Struct", named |-> TRUE, fields |-> f]
           \/ \E f \in SeqsUpTo(TupleFieldTypes, MaxFields) :
                  input = [attrs |-> a, data |-> "Struct", named |-> FALSE, fields |-> f]
           \/ \E d \in {"Enum", "Union"} :
                  input = [attrs |-> a, data |-> d, named |-> TRUE, fields |-> <<>>]
    /\ s_pc = AfterAttrs(1)
    /\ s_attr = 1
    /\ s_field = 1
    /\ table_impl = <<>>      \* quote!()
    /\ methods = <<>>         \* quote!()
    /\ offset = 0
    /\ size = 0
    /\ tokens = NoTokens
    /\ failure = "None"

SfntNext ==
    \/ SfntAttr
    \/ SfntData
    \/ SfntField
    \/ SfntEmit

SpecSfnt == SfntInit /\ [][SfntNext]_vars

(***************************************************************************)
(* Properties of #[derive(SfntTable)].                                     *)
(***************************************************************************)
\* the widths by type name (0: none)
ClaimedWidth(name) ==
    CASE name \in {"u16", "i16", "FWord", "UFWord", "FontDesignUnitsPerEmFactorU16"} -> 2
      [] name \in {"u32", "FixedPoint", "Tag"} -> 4
      [] name = "LongDateTime" -> 8
      [] OTHER -> 0

\* a field type the derive looks up by name: a path without a qualified self
PlainPath(ty) == ty.kind = "Path" /\ ~ty.qself

\* the last path segment of field i's type ("-" for a type that has none)
TypeName(i) ==
    LET ty == input.fields[i]
    IN  IF ty.kind = "Path" /\ ty.segments # <<>> THEN LastSegment(ty) ELSE "-"

WidthOf(i) == ClaimedWidth(TypeName(i))

RECURSIVE SumWidths(_)
SumWidths(n) == IF n = 0 THEN 0 ELSE SumWidths(n - 1) + WidthOf(n)

Min4(w) == IF w < 4 THEN w ELSE 4

NumFields == Len(input.fields)

SfntFinished == s_pc \in {"done", "aborted"}

SfntRejected == s_pc = "aborted" /\ ~tokens.emitted

\* the #[tag = "..."] attributes with a string value, and the first of them:
\* the one the derive reads
StrTags ==
    {k \in 1..Len(input.attrs) :
        /\ input.attrs[k].meta = "NameValue"
        /\ input.attrs[k].ident = "tag"
        /\ input.attrs[k].lit = "Str"}

TagString == input.attrs[CHOOSE k \in StrTags : \A j \in StrTags : k <= j].value

\* the attribute loop lets the derive through to the fields
TagPasses == StrTags = {} \/ Len(AsBytes(TagString)) = 4

\* the field loop gets to field i, and gets past fields 1..i-1
FieldsPassTo(i) ==
    /\ input.data = "Struct"
    /\ input.named
    /\ TagPasses
    /\ \A j \in 1..(i - 1) :
           /\ PlainPath(input.fields[j])
           /\ WidthOf(j) > 0
           /\ SumWidths(j - 1) % Min4(WidthOf(j)) = 0

\* C4: for an accepted struct there is one accessor per field, in declaration
\* order and named after its field; applied to a Position at byte position
\* base, the accessor of field i gives the Position of the field's type at
\* base + (the widths of the fields before it); the first field's is at base.
C4_AccessorOffsets ==
    tokens.emitted =>
        /\ Len(tokens.methods) = NumFields
        /\ \A i \in 1..NumFields :
               /\ tokens.methods[i].name = i
               /\ \A base \in 0..MaxBase :
                      Accessor(tokens.methods[i], [byte_position |-> base, ty |-> "Table"])
                          = [byte_position |-> base + SumWidths(i - 1),
                             ty |-> input.fields[i]]

\* an accepted struct of two fields, the second accessor past a 4-byte field
C4_Witness ==
    /\ tokens.emitted
    /\ NumFields = 2
    /\ WidthOf(1) = 4
    /\ Accessor(tokens.methods[2], [byte_position |-> 1, ty |-> "Table"]).byte_position = 5

\* C5: in an accepted layout every field's offset is divisible by
\* min(width, 4), and the fields lie in declaration order without overlap; a
\* struct whose field loop comes to a field with an offset (the widths before
\* it summed) not divisible by min(width, 4) is rejected with the failure
\* "misaligned", and a rejected struct gets no accessors.
C5_Alignment ==
    /\ tokens.emitted =>
           \A i \in 1..Len(tokens.methods) :
               /\ WidthOf(i) > 0
               /\ tokens.methods[i].offset % Min4(WidthOf(i)) = 0
               /\ \A j \in 1..Len(tokens.methods) :
                      i < j => tokens.methods[i].offset + WidthOf(i)
                                   <= tokens.methods[j].offset
    /\ SfntFinished =>
           \A i \in 1..NumFields :
               (/\ FieldsPassTo(i)
                /\ PlainPath(input.fields[i])
                /\ WidthOf(i) > 0
                /\ SumWidths(i - 1) % Min4(WidthOf(i)) # 0)
                   => (SfntRejected /\ failure = "Misaligned" /\ s_field = i)
    /\ s_pc = "aborted" => tokens = NoTokens

\* a u16 followed by a 4-byte field: rejected as misaligned
C5_Witness ==
    /\ s_pc = "aborted"
    /\ failure = "Misaligned"
    /\ s_field = 2
    /\ WidthOf(1) = 2
    /\ WidthOf(2) = 4
    /\ offset = 2

\* C6: for an accepted struct the size the derive asserts is the sum of the
\* widths of all fields, and every field ends within it.
C6_SizeOf ==
    tokens.emitted =>
        /\ tokens.size_of = SumWidths(NumFields)
        /\ \A i \in 1..Len(tokens.methods) :
               tokens.methods[i].offset + WidthOf(i) <= tokens.size_of

\* an accepted struct of a 2-byte field: size 2
C6_Witness ==
    /\ tokens.emitted
    /\ NumFields = 1
    /\ WidthOf(1) = 2
    /\ tokens.size_of = 2

\* C7: the size given to a field is decided by the last path segment of its
\* type: 2 for u16, i16, FWord, UFWord, FontDesignUnitsPerEmFactorU16; 4 for
\* u32, FixedPoint, Tag; 8 for LongDateTime.  A field of another type name
\* gets no size: the derive is rejected with "size unknown" when its loop comes
\* to it, and an accepted struct has none.
C7_FieldWidths ==
    /\ (s_pc \in {"fields", "emit", "done"} /\ s_field > 1) =>
           /\ TypeName(s_field - 1) \in SizedNames
           /\ size = ClaimedWidth(TypeName(s_field - 1))
           /\ offset - methods[s_field - 1].offset = size
    /\ failure = "Misaligned" => size = ClaimedWidth(TypeName(s_field))
    /\ tokens.emitted => \A i \in 1..NumFields : WidthOf(i) \in {2, 4, 8}
    /\ SfntFinished =>
           \A i \in 1..NumFields :
               (/\ FieldsPassTo(i)
                /\ PlainPath(input.fields[i])
                /\ WidthOf(i) = 0)
                   => (SfntRejected /\ failure = "UnknownSize" /\ s_field = i)

\* the derive has sized a field by the last segment of a two-segment path and
\* met a field of unknown type name after it
C7_Witness ==
    /\ s_pc = "aborted"
    /\ failure = "UnknownSize"
    /\ s_field = 2
    /\ input.fields[1].segments = <<"fonts", "Tag">>
    /\ size = 4
    /\ input.fields[2].segments = <<"u16", "Item">>

\* C8: an SfntTable impl is emitted only for a #[tag = "..."] string of exactly
\* 4 bytes, its TAG holds these bytes unchanged (whatever they are: they need
\* be neither printable nor ASCII), and a tag string of another byte length
\* ends the derive.  The tag string is the one the derive reads: the first
\* string-valued tag attribute.
C8_TagIsFourBytes ==
    /\ table_impl # <<>> =>
           /\ StrTags # {}
           /\ Len(AsBytes(TagString)) = 4
           /\ table_impl = <<[trait |-> "SfntTable", tag |-> AsBytes(TagString)]>>
    /\ tokens.emitted =>
           /\ tokens.table_impl = table_impl
           /\ (table_impl # <<>>) <=> (StrTags # {})
    /\ (SfntFinished /\ StrTags # {} /\ Len(AsBytes(TagString)) # 4)
           => (SfntRejected /\ failure = "TagLength")

\* the tag "\0b\u{e9}" emitted: 3 chars, 4 bytes, not printable, not ASCII
C8_Witness ==
    /\ tokens.emitted
    /\ tokens.table_impl = <<[trait |-> "SfntTable", tag |-> <<0, 98, 195, 169>>]>>

(***************************************************************************)
(* proc-macros: #[derive(Pod)]                                             *)
(***************************************************************************)
Word(w) == [kind |-> "Word", ident |-> w]

\* what a.interpret_meta() gives for the attributes tried: #[repr(C)],
\* #[repr(C, packed)], #[repr(packed)], #[repr("C")], #[repr(align(8))],
\* #[allow(C)], #[repr], #[repr = "C"]
PodAttrs ==
    {[meta |-> "List", ident |-> "repr", nested |-> <<Word("C")>>],
     [meta |-> "List", ident |-> "repr", nested |-> <<Word("C"), Word("packed")>>],
     [meta |-> "List", ident |-> "repr", nested |-> <<Word("packed")>>],
     [meta |-> "List", ident |-> "repr", nested |-> <<[kind |-> "Literal", ident |-> "C"]>>],
     [meta |-> "List", ident |-> "repr", nested |-> <<[kind |-> "List", ident |-> "align"]>>],
     [meta |-> "List", ident |-> "allow", nested |-> <<Word("C")>>],
     [meta |-> "Word", ident |-> "repr", nested |-> <<>>],
     [meta |-> "NameValue", ident |-> "repr", nested |-> <<>>]}

\* the field names of a struct with n named fields
FieldIdents == <<"a", "b", "c", "d">>

\* IsReprC satisfied by the word C anywhere in the list
IsReprCAnywhere(a) ==
    /\ a.meta = "List"
    /\ a.ident = "repr"
    /\ \E k \in 1..Len(a.nested) : a.nested[k] = Word("C")

\* the closure of has_repr_c: a Meta::List named repr whose nested list has
\* one element, the word C
IsReprC(a) ==
    /\ a.meta = "List"
    /\ a.ident = "repr"
    /\ Len(a.nested) = 1
    /\ a.nested[1].kind = "Word"
    /\ a.nested[1].ident = "C"

\* the Member of field i (counted from 1; syn::Index counts from 0)
Member(f, i) ==
    IF f # "None"
    THEN [member |-> "Named", ident |-> f, index |-> -1]
    ELSE [member |-> "Unnamed", ident |-> "None", index |-> i - 1]

PodAbort(why) ==
    /\ p_pc' = "aborted"
    /\ p_failure' = why

\* one turn of input.attrs.iter().any(..), which stops at the first match
PodAttr ==
    /\ p_pc = "attrs"
    /\ IF p_attr > Len(p_input.attrs)
       THEN /\ p_pc' = "assert"
            /\ UNCHANGED <<p_attr, has_repr_c>>
       ELSE IF IsReprC(p_input.attrs[p_attr])
       THEN /\ has_repr_c' = TRUE
            /\ p_pc' = "assert"
            /\ UNCHANGED p_attr
       ELSE /\ p_attr' = p_attr + 1
            /\ UNCHANGED <<p_pc, has_repr_c>>
    /\ UNCHANGED <<p_input, p_tokens, p_failure, bridgeVars, sfntVars, lengthVars>>

\* assert!(has_repr_c, ..)
PodAssert ==
    /\ p_pc = "assert"
    /\ IF has_repr_c
       THEN p_pc' = "data" /\ UNCHANGED p_failure
       ELSE PodAbort("RequiresReprC")
    /\ UNCHANGED <<p_input, p_attr, has_repr_c, p_tokens, bridgeVars, sfntVars, lengthVars>>

\* `if let syn::Data::Struct(ref struct_) = input.data`
PodData ==
    /\ p_pc = "data"
    /\ IF p_input.data = "Struct"
       THEN p_pc' = "emit" /\ UNCHANGED p_failure
       ELSE PodAbort("NotStruct")
    /\ UNCHANGED <<p_input, p_attr, has_repr_c, p_tokens, bridgeVars, sfntVars, lengthVars>>

\* the final quote!: the impl, the assertion on the fields, the packed copy
PodEmit ==
    /\ p_pc = "emit"
    /\ p_tokens' =
           [emitted |-> TRUE,
            impl_pod_for |-> p_input.ident,
            assert_fields |-> [i \in 1..Len(p_input.fields) |->
                                   Member(p_input.fields[i], i)],
            packed |-> [ident |-> <<p_input.ident, "Packed">>, attrs |-> <<>>,
                        fields |-> p_input.fields]]
    /\ p_pc' = "done"
    /\ UNCHANGED <<p_input, p_attr, has_repr_c, p_failure, bridgeVars, sfntVars, lengthVars>>

PodInit ==
    /\ BridgeIdle
    /\ SfntIdle
    /\ LengthIdle
    \* the inputs tried: a struct with named fields (none: a unit struct), a
    \* tuple struct, an enum and a union
    /\ \E a \in SeqsUpTo(PodAttrs, MaxPodAttrs) :
           \/ \E n \in 0..MaxFields :
                  p_input = [ident |-> "T", attrs |-> a, data |-> "Struct",
                             fields |-> SubSeq(FieldIdents, 1, n)]
           \/ \E n \in 1..MaxFields :
                  p_input = [ident |-> "T", attrs |-> a, data |-> "Struct",
                             fields |-> [i \in 1..n |-> "None"]]
           \/ \E d \in {"Enum", "Union"} :
                  p_input = [ident |-> "T", attrs |-> a, data |-> d, fields |-> <<>>]
    /\ p_pc = "attrs"
    /\ p_attr = 1
    /\ has_repr_c = FALSE
    /\ p_tokens = NoPodTokens
    /\ p_failure = "None"

PodNext ==
    \/ PodAttr
    \/ PodAssert
    \/ PodData
    \/ PodEmit

SpecPod == PodInit /\ [][PodNext]_vars

\* an attribute #[repr(...)] whose argument list is the single word C
ClaimedReprC(a) ==
    /\ a.meta = "List"
    /\ a.ident = "repr"
    /\ a.nested = <<[kind |-> "Word", ident |-> "C"]>>

CarriesReprC == \E k \in 1..Len(p_input.attrs) : ClaimedReprC(p_input.attrs[k])

\* C9: derive(Pod) emits `unsafe impl Pod` only for a struct that carries an
\* attribute #[repr(C)] with exactly the one word C, and what it emits asserts
\* Pod of every field of the struct, named or numbered; an input without the
\* attribute, or one that is no struct, is rejected and nothing is emitted.
C9_PodNeedsReprC ==
    /\ p_tokens.emitted =>
           /\ CarriesReprC
           /\ p_input.data = "Struct"
           /\ p_tokens.impl_pod_for = p_input.ident
           /\ Len(p_tokens.assert_fields) = Len(p_input.fields)
           /\ \A i \in 1..Len(p_input.fields) :
                  LET m == p_tokens.assert_fields[i]
                  IN  IF p_input.fields[i] = "None"
                      THEN m.member = "Unnamed" /\ m.index = i - 1
                      ELSE m.member = "Named" /\ m.ident = p_input.fields[i]
    /\ (p_pc \in {"done", "aborted"} /\ (~CarriesReprC \/ p_input.data # "Struct"))
           => (p_pc = "aborted" /\ p_tokens = NoPodTokens
               /\ p_failure = (IF CarriesReprC THEN "NotStruct" ELSE "RequiresReprC"))
    /\ p_pc = "done" => p_tokens.emitted
    /\ p_pc # "done" => p_tokens = NoPodTokens

\* a struct of two named fields with #[repr(packed)] #[repr(C)]: accepted
C9_Witness ==
    /\ p_tokens.emitted
    /\ Len(p_input.attrs) = 2
    /\ ~ClaimedReprC(p_input.attrs[1])
    /\ p_input.attrs[1].ident = "repr"
    /\ ClaimedReprC(p_input.attrs[2])
    /\ Len(p_tokens.assert_fields) = 2
    /\ p_tokens.assert_fields[2].ident = "b"

(***************************************************************************)
(* victor: style::values::Length                                           *)
(***************************************************************************)

\* the longest token sequence the parser is given
MaxTokens == 2

\* units and identifiers as sequences of code points:
\* px, pX, Px, PX, em, p, pxx, and full-width PX (U+FF30 U+FF38)
Units ==
    {<<112, 120>>, <<112, 88>>, <<80, 120>>, <<80, 88>>, <<101, 109>>, <<112>>,
     <<112, 120, 120>>, <<65328, 65336>>}

Values == {0, 16}

\* the tokens tried: dimensions, numbers, percentages and the identifier px
Tokens ==
    [kind : {"Dimension"}, value : Values, unit : Units]
        \cup [kind : {"Number", "Percentage"}, value : Values, unit : {<<>>}]
        \cup [kind : {"Ident"}, value : {0}, unit : {<<112, 120>>}]

NoToken == [kind |-> "-", value |-> 0, unit |-> <<>>]

\* Parser::next as Length::parse uses it: the next token, the parser moved
\* past it, or the parser's error when no token is left
ParserNext(p) ==
    IF p.position < Len(p.input)
    THEN [ok |-> TRUE, token |-> p.input[p.position + 1], err |-> "-",
          parser |-> [p EXCEPT !.position = @ + 1]]
    ELSE [ok |-> FALSE, token |-> NoToken, err |-> "Basic(EndOfInput)", parser |-> p]

AsciiLowercase(c) == IF c \in 65..90 THEN c + 32 ELSE c

ToAsciiLowercase(str) == [i \in 1..Len(str) |-> AsciiLowercase(str[i])]

\* MatchIgnoreAsciiCase comparing the unit as written
MatchExactCase(unit) == IF unit = <<112, 120>> THEN "px" ELSE "_"

\* match_ignore_ascii_case!(unit, "px" => ..., _ => {}): the arm taken
MatchIgnoreAsciiCase(unit) ==
    IF ToAsciiLowercase(unit) = <<112, 120>> THEN "px" ELSE "_"

\* EuclidLength::new / PxLength::new wrapped in Length::Px
Px(value) == [variant |-> "Px", px |-> value]

Ok(val) == [kind |-> "Ok", val |-> val, err |-> "-"]

Err(err) == [kind |-> "Err", val |-> NoLength, err |-> err]

\* values.rs: Length::parse
LengthParseOld(p) ==
    LET n == ParserNext(p)
    IN  IF ~n.ok
        THEN [result |-> Err(n.err), parser |-> n.parser]
        ELSE IF n.token.kind = "Dimension" /\ MatchIgnoreAsciiCase(n.token.unit) = "px"
             THEN [result |-> Ok(Px(n.token.value)), parser |-> n.parser]
             ELSE [result |-> Err("Custom(Other)"), parser |-> n.parser]

\* values/length.rs: <Length as Parse>::parse
LengthParse(p) ==
    LET n == ParserNext(p)
    IN  IF ~n.ok
        THEN [result |-> Err(n.err), parser |-> n.parser]
        ELSE IF n.token.kind = "Dimension"
             THEN IF MatchIgnoreAsciiCase(n.token.unit) = "px"
                  THEN [result |-> Ok(Px(n.token.value)), parser |-> n.parser]
                  ELSE [result |-> Err("Custom(Other)"), parser |-> n.parser]
             ELSE [result |-> Err("Custom(Other)"), parser |-> n.parser]

\* values/length.rs: <Length as ToComputedValue>::to_computed
ToComputed(self) == self.px

\* a caller parses one Length with the old code
ParseOld ==
    /\ v_version = "values.rs"
    /\ v_pc \in {"ready", "parsed"}
    /\ LET r == LengthParseOld(v_parser)
       IN  /\ v_result' = r.result
           /\ v_parser' = r.parser
    /\ v_before' = v_parser.position
    /\ v_pc' = "parsed"
    /\ UNCHANGED <<v_version, v_computed, bridgeVars, sfntVars, podVars>>

\* a caller parses one Length with the new code
ParseNew ==
    /\ v_version = "values/length.rs"
    /\ v_pc \in {"ready", "parsed", "computed"}
    /\ LET r == LengthParse(v_parser)
       IN  /\ v_result' = r.result
           /\ v_parser' = r.parser
    /\ v_before' = v_parser.position
    /\ v_computed' = <<>>
    /\ v_pc' = "parsed"
    /\ UNCHANGED <<v_version, bridgeVars, sfntVars, podVars>>

\* the caller computes the value of the Length it parsed
Compute ==
    /\ v_version = "values/length.rs"
    /\ v_pc = "parsed"
    /\ v_result.kind = "Ok"
    /\ v_computed' = <<ToComputed(v_result.val)>>
    /\ v_pc' = "computed"
    /\ UNCHANGED <<v_version, v_parser, v_before, v_result, bridgeVars, sfntVars, podVars>>

LengthInit ==
    /\ BridgeIdle
    /\ SfntIdle
    /\ PodIdle
    /\ v_version \in {"values.rs", "values/length.rs"}
    /\ \E i \in SeqsUpTo(Tokens, MaxTokens) : v_parser = [input |-> i, position |-> 0]
    /\ v_before = 0
    /\ v_result = NoResult
    /\ v_computed = <<>>
    /\ v_pc = "ready"

LengthNext ==
    \/ ParseOld
    \/ ParseNew
    \/ Compute

SpecLength == LengthInit /\ [][LengthNext]_vars

\* the four spellings of px that differ only in ASCII case
PxSpellings == {<<112, 120>>, <<112, 88>>, <<80, 120>>, <<80, 88>>}

\* C13: in both versions a parse takes exactly one token from the parser and
\* returns Ok(Length::Px(v)) exactly when that token is a Dimension whose
\* unit is px in any ASCII case, v being the token's value; any other token
\* gives the custom error Other; with no token left nothing is taken and the
\* parser's own error is returned; to_computed of Length::Px(v) is v.
C13_LengthParse ==
    /\ v_pc \in {"parsed", "computed"} =>
           IF v_before < Len(v_parser.input)
           THEN LET t == v_parser.input[v_before + 1]
                    isPx == t.kind = "Dimension" /\ t.unit \in PxSpellings
                IN  /\ v_parser.position = v_before + 1
                    /\ isPx => v_result = [kind |-> "Ok",
                                           val |-> [variant |-> "Px", px |-> t.value],
                                           err |-> "-"]
                    /\ ~isPx => (v_result.kind = "Err" /\ v_result.err = "Custom(Other)")
           ELSE /\ v_parser.position = v_before
                /\ v_result.kind = "Err"
                /\ v_result.err = "Basic(EndOfInput)"
    /\ v_pc = "computed" =>
           v_computed = <<v_parser.input[v_before + 1].value>>

\* the new code rejected a first token 16em, then parsed 16PX as Px(16) and
\* computed 16 from it
C13_Witness ==
    /\ v_version = "values/length.rs"
    /\ v_pc = "computed"
    /\ v_before = 1
    /\ v_parser.input[1] = [kind |-> "Dimension", value |-> 16, unit |-> <<101, 109>>]
    /\ v_parser.input[2] = [kind |-> "Dimension", value |-> 16, unit |-> <<80, 88>>]
    /\ v_result.val.px = 16
    /\ v_computed = <<16>>

====
